---- MODULE Spec2Model ----
(***************************************************************************)
(* Model of the hot-news server: the TTL cache (SimpleCache), the          *)
(* aggregation orchestrator (HotNewsServer.getHotNews with its per-source  *)
(* fetches and deadline timer), the webview proxy (fetchArticleHtml) and   *)
(* the rich-text cleaner (cleanHtmlForRichText).                           *)
(*                                                                         *)
(* Time: the clock `now` counts whole minutes; Date.now() + ttlMinutes *   *)
(* 60 * 1000 is therefore now + ttlMinutes.  The deadline timer and the    *)
(* per-source requests live on a scale of seconds: they are events that    *)
(* happen between two ticks of the minute clock.                           *)
(***************************************************************************)
EXTENDS Integers, Sequences, FiniteSets, TLC

\* ---------------------------------------------------------------- bounds
NCalls == 2      \* getHotNews calls that can be in flight together
MaxTime == 3     \* the clock stops here
MaxVer == 1      \* distinct snapshots an upstream can answer with
MaxStarted == 2  \* getHotNews calls that miss the cache in one behaviour
MaxCacheTime == 6  \* the clock of the cache alone stops here
MaxElems == 2    \* elements of a fetched page
MaxTokens == 3   \* tokens of a fragment given to the cleaner
MaxKeyLen == 3   \* ids of a sequence whose cache key is compared

VARIABLES
  now,              \* Date.now(), in minutes
  cache,            \* SimpleCache.cache: key -> [data, expires]
  pc,               \* per call: "idle", "waiting" (on the race), "timedout"
                    \*   (on allSettled in the catch), "returned" (timer left)
  sources,          \* per call: the id sequence it was called with
  requestPromises,  \* per call: the promises of fetchSingleSource
  timer,            \* per call: the setTimeout of the race
  returned,         \* what the latest completed call handed to its caller
  firstReturn,      \* the earliest return whose cache window is still open
  started,          \* calls that missed the cache so far
  sinceClear,       \* history of clearCache: "never" run, "cleared" with no
                    \*   getHotNews call begun since, or "called"
  got,              \* what the latest SimpleCache.get handed back
  proxy,            \* the latest fetchArticleHtml call: its inputs and its page
  clean,            \* the latest cleanHtmlForRichText call: input and output
  fetched,          \* an aggregation whose requests were all answered: the
                    \*   upstream responses and the list built from them
  article,          \* the latest fetchArticleContent call: inputs and outcome
  fallback          \* the latest generateFallbackContent call: inputs and outcome

vars == <<now, cache, pc, sources, requestPromises, timer, returned,
          firstReturn, started, sinceClear, got, proxy, clean, fetched, article,
          fallback>>

\* what the orchestrator leaves alone
aside == <<got, proxy, clean, fetched, article, fallback>>

Calls == 1..NCalls

\* ------------------------------------------------------- source registry
\* config.ts HOT_NEWS_SOURCES: ids 1..9
HOT_NEWS_SOURCES == 1..9

\* the id sequences callers pass (the handlers refuse an empty list): a
\* single id, a repeated id, an unregistered id alone and next to a
\* registered one
IdSeqs == {<<2>>, <<1, 1>>, <<10>>, <<1, 10>>}

Positions == 1..2

Versions == 1..MaxVer

\* ---------------------------------------------------------- SourceResult
Real(id, ver) == [kind |-> "real", id |-> id, ver |-> ver, time |-> 0]

NullResult == [kind |-> "null", id |-> 0, ver |-> 0, time |-> 0]

\* getFallbackSiteData: null for an id that is not in the registry, else the
\* placeholder stamped with the current time
getFallbackSiteData(sourceId, t) ==
  IF sourceId \notin HOT_NEWS_SOURCES THEN NullResult
  ELSE [kind |-> "fallback", id |-> sourceId, ver |-> 0, time |-> t]

\* ------------------------------------------------------------ SimpleCache
NoData == <<>>

EmptyCache == [k \in {} |-> 0]

\* set() with the ttl argument lost: the default of 5 minutes applies
SimpleCacheSetDefaultTtl(c, key, data, ttlMinutes, t) ==
  [k \in DOMAIN c \cup {key} |->
     IF k = key THEN [data |-> data, expires |-> t + 5] ELSE c[k]]

SimpleCacheSet(c, key, data, ttlMinutes, t) ==
  [k \in DOMAIN c \cup {key} |->
     IF k = key THEN [data |-> data, expires |-> t + ttlMinutes] ELSE c[k]]

\* the test of get() written with >=: an entry is gone at its expiry instant
SimpleCacheMissesAtExpiry(c, key, t) ==
  \/ key \notin DOMAIN c
  \/ t >= c[key].expires

\* the test of get(): no item, or Date.now() > item.expires
SimpleCacheMisses(c, key, t) ==
  \/ key \notin DOMAIN c
  \/ t > c[key].expires

\* get() that sweeps on a miss: every expired entry goes, not only the one
\* it was asked for
SimpleCacheGetSweeping(c, key, t) ==
  IF SimpleCacheMisses(c, key, t)
  THEN [found |-> FALSE, data |-> NoData,
        cache |-> [k \in {j \in DOMAIN c \ {key} : t <= c[j].expires} |-> c[k]]]
  ELSE [found |-> TRUE, data |-> c[key].data, cache |-> c]

\* get(): the value handed back and the map it leaves behind (delete on miss)
SimpleCacheGet(c, key, t) ==
  IF SimpleCacheMisses(c, key, t)
  THEN [found |-> FALSE, data |-> NoData,
        cache |-> [k \in DOMAIN c \ {key} |-> c[k]]]
  ELSE [found |-> TRUE, data |-> c[key].data, cache |-> c]

SimpleCacheClear(c) == EmptyCache

\* --------------------------------------------------------------- cacheKey
Digit(d) == <<"0", "1", "2", "3", "4", "5", "6", "7", "8", "9">>[d + 1]

RECURSIVE NumberToString(_)
NumberToString(n) ==
  IF n < 10 THEN <<Digit(n)>>
  ELSE NumberToString(n \div 10) \o <<Digit(n % 10)>>

\* join('') : the strings of the ids with nothing between them
RECURSIVE JoinUnseparated(_)
JoinUnseparated(s) ==
  IF Len(s) = 0 THEN <<>>
  ELSE NumberToString(s[1]) \o JoinUnseparated(Tail(s))

RECURSIVE Join(_)
Join(s) ==
  IF Len(s) = 0 THEN <<>>
  ELSE IF Len(s) = 1 THEN NumberToString(s[1])
  ELSE NumberToString(s[1]) \o <<"_">> \o Join(Tail(s))

CacheKey(srcs) == <<"hotnews_">> \o Join(srcs)

\* ------------------------------------------------------ fetchSingleSource
\* a promise: its status, its value when fulfilled, and whether it settled
\* after the deadline timer of its call had fired
Pending == [status |-> "pending", value |-> NullResult, late |-> FALSE]

Rejected(late) == [status |-> "rejected", value |-> NullResult, late |-> late]

Fulfilled(v, late) == [status |-> "fulfilled", value |-> v, late |-> late]

\* the promise as it stands when fetchSingleSource returns it: rejected at
\* once for an id that is not in the registry, else waiting on axios.get
fetchSingleSource(sourceId) ==
  IF sourceId \notin HOT_NEWS_SOURCES THEN Rejected(FALSE) ELSE Pending

AllSettled(promises) ==
  \A i \in 1..Len(promises) : promises[i].status # "pending"

\* ------------------------------------------------------------- assembly
\* the loop pushing the fulfilled values only, nothing for a failed request
AssembleFulfilledOnly(raceResult, srcs, t) ==
  LET RECURSIVE Push(_)
      Push(i) ==
        IF i = 0 THEN <<>>
        ELSE IF raceResult[i].status = "fulfilled"
             THEN Append(Push(i - 1), raceResult[i].value)
             ELSE Push(i - 1)
  IN Push(Len(srcs))

\* the loop over raceResult after the race was won by Promise.allSettled
AssembleResults(raceResult, srcs, t) ==
  [i \in 1..Len(srcs) |->
     IF raceResult[i].status = "fulfilled" THEN raceResult[i].value
     ELSE getFallbackSiteData(srcs[i], t)]

\* the loop over partialResults in the TIMEOUT branch of the catch
AssemblePartial(partialResults, srcs, t) ==
  [i \in 1..Len(srcs) |->
     IF partialResults[i].status = "fulfilled" THEN partialResults[i].value
     ELSE getFallbackSiteData(srcs[i], t)]

\* the filter written r.data[0].title: a TypeError on a null entry
LogValidCountThrowsUnchained(finalResults) ==
  \E i \in 1..Len(finalResults) : finalResults[i].kind = "null"

\* the filter of the log line in the TIMEOUT branch, r?.data?.[0]?.title:
\* optional chaining makes it defined on a null entry too
LogValidCountThrows(finalResults) == FALSE

TTL_FULL == 5

TTL_PARTIAL == 2

NoGet == [key |-> <<>>, found |-> FALSE, data |-> NoData, at |-> 0]

NoProxy == [pc |-> "idle", url |-> <<>>, response |-> <<>>, cheerioThrows |-> FALSE,
            out |-> <<>>]

NoClean == [pc |-> "idle", html |-> <<>>, out |-> <<>>]

NoFetched == [pc |-> "idle", sources |-> <<>>, responses |-> <<>>, list |-> <<>>]

NoArticle == [pc |-> "idle", url |-> <<>>, response |-> <<>>, outcome |-> <<>>]

NoFallback == [pc |-> "idle", url |-> <<>>, title |-> "", summary |-> "", outcome |-> <<>>]

NoReturn == [via |-> "none", sources |-> <<>>, list |-> <<>>, expires |-> 0]

Return(via, srcs, list, expires) ==
  [via |-> via, sources |-> srcs, list |-> list, expires |-> expires]

\* history of the returns: the register keeps the first return until the
\* window of the entry behind it has closed (its TTL is over, or the cache
\* was cleared)
Remember(r) ==
  IF firstReturn.via = "none" \/ now >= firstReturn.expires THEN r ELSE firstReturn

\* --------------------------------------------------------------- getHotNews
Init ==
  /\ now = 0
  /\ cache = EmptyCache
  /\ pc = [c \in Calls |-> "idle"]
  /\ sources = [c \in Calls |-> <<>>]
  /\ requestPromises = [c \in Calls |-> <<>>]
  /\ timer = [c \in Calls |-> "none"]
  /\ returned = NoReturn
  /\ firstReturn = NoReturn
  /\ started = 0
  /\ sinceClear = "never"
  /\ got = NoGet
  /\ proxy = NoProxy
  /\ clean = NoClean
  /\ fetched = NoFetched
  /\ article = NoArticle
  /\ fallback = NoFallback

\* the call is over: its promises are dropped; a timer that has not fired
\* yet stays behind
Leave(c, timerNow) ==
  /\ pc' = [pc EXCEPT ![c] = IF timerNow = "armed" THEN "returned" ELSE "idle"]
  /\ sources' = [sources EXCEPT ![c] = <<>>]
  /\ requestPromises' = [requestPromises EXCEPT ![c] = <<>>]
  /\ timer' = [timer EXCEPT ![c] = IF timerNow = "armed" THEN "armed" ELSE "none"]

\* the continuation after `await Promise.race` resolved with the allSettled
\* array: assemble, cache for 5 minutes, return
FinishFull(c, srcs, promises, cch) ==
  LET results == AssembleResults(promises, srcs, now)
      written == SimpleCacheSet(cch, CacheKey(srcs), results, TTL_FULL, now)
      r == Return("full", srcs, results, written[CacheKey(srcs)].expires)
  IN /\ cache' = written
     /\ returned' = r
     /\ firstReturn' = Remember(r)
     /\ Leave(c, "armed")

\* the continuation after `await Promise.allSettled` in the TIMEOUT branch:
\* assemble, cache for 2 minutes, log, return
FinishPartial(c, srcs, promises, cch) ==
  LET finalResults == AssemblePartial(promises, srcs, now)
      written == SimpleCacheSet(cch, CacheKey(srcs), finalResults, TTL_PARTIAL, now)
      r == Return("partial", srcs, finalResults, written[CacheKey(srcs)].expires)
  IN /\ cache' = written
     /\ Leave(c, "fired")
     /\ IF LogValidCountThrows(finalResults)
        THEN /\ returned' = Return("threw", srcs, <<>>, 0)
             /\ firstReturn' = firstReturn
        ELSE /\ returned' = r
             /\ firstReturn' = Remember(r)

\* sources.map(sourceId => this.fetchSingleSource(sourceId)) with a request
\* for the first occurrence of an id only
StartRequestsOncePerId(srcs) ==
  [i \in 1..Len(srcs) |->
     IF \E j \in 1..(i - 1) : srcs[j] = srcs[i] THEN Rejected(FALSE)
     ELSE fetchSingleSource(srcs[i])]

\* requests coalesced: a call for a sequence that another call is in flight
\* for takes over the promises of that call
StartRequestsShared(srcs) ==
  IF \E d \in Calls : pc[d] \in {"waiting", "timedout"} /\ sources[d] = srcs
  THEN requestPromises[CHOOSE d \in Calls :
                         pc[d] \in {"waiting", "timedout"} /\ sources[d] = srcs]
  ELSE [i \in 1..Len(srcs) |-> fetchSingleSource(srcs[i])]

\* sources.map(sourceId => this.fetchSingleSource(sourceId)): every call of
\* fetchSingleSource runs up to its axios.get before map goes on
StartRequests(srcs) == [i \in 1..Len(srcs) |-> fetchSingleSource(srcs[i])]

\* a call takes the lowest free slot
FreeSlot(c) == pc[c] = "idle" /\ \A d \in Calls : d < c => pc[d] # "idle"

\* getHotNews up to its first await (and through it, when nothing is pending)
GetHotNews(c, srcs) ==
  /\ FreeSlot(c)
  /\ now' = now
  /\ sinceClear' = IF sinceClear = "cleared" THEN "called" ELSE sinceClear
  /\ UNCHANGED aside
  /\ LET cached == SimpleCacheGet(cache, CacheKey(srcs), now)
         promises == StartRequests(srcs)
     IN IF cached.found
        THEN /\ cache' = cached.cache
             /\ returned' = Return("hit", srcs, cached.data,
                                   cache[CacheKey(srcs)].expires)
             /\ firstReturn' = Remember(returned')
             /\ UNCHANGED <<pc, sources, requestPromises, timer, started>>
        ELSE /\ started < MaxStarted
             /\ started' = started + 1
             /\ IF AllSettled(promises)
                THEN FinishFull(c, srcs, promises, cached.cache)
                ELSE /\ cache' = cached.cache
                     /\ pc' = [pc EXCEPT ![c] = "waiting"]
                     /\ sources' = [sources EXCEPT ![c] = srcs]
                     /\ requestPromises' = [requestPromises EXCEPT ![c] = promises]
                     /\ timer' = [timer EXCEPT ![c] = "armed"]
                     /\ UNCHANGED <<returned, firstReturn>>

\* a pending request settles; when it was the last one the call resumes
Settle(c, i, outcome) ==
  /\ pc[c] \in {"waiting", "timedout"}
  /\ i \in 1..Len(requestPromises[c])
  /\ requestPromises[c][i].status = "pending"
  /\ LET promises == [requestPromises[c] EXCEPT ![i] = outcome]
     IN IF AllSettled(promises)
        THEN IF pc[c] = "waiting"
             THEN FinishFull(c, sources[c], promises, cache)
             ELSE FinishPartial(c, sources[c], promises, cache)
        ELSE /\ requestPromises' = [requestPromises EXCEPT ![c] = promises]
             /\ UNCHANGED <<cache, pc, sources, timer, returned, firstReturn>>
  /\ UNCHANGED <<now, started, sinceClear, aside>>

\* axios.get answered with success: true
FetchFulfils(c, i, ver) ==
  Settle(c, i, Fulfilled(Real(sources[c][i], ver), pc[c] = "timedout"))

\* axios.get timed out, failed, or the API answered success: false
FetchRejects(c, i) == Settle(c, i, Rejected(pc[c] = "timedout"))

\* the setTimeout callback with a rejection nobody handles once the call has
\* returned: the TIMEOUT error surfaces
TimerFiresUnhandled(c) ==
  /\ timer[c] = "armed"
  /\ timer' = [timer EXCEPT ![c] = IF pc[c] = "waiting" THEN "fired" ELSE "none"]
  /\ pc' = [pc EXCEPT ![c] = IF pc[c] = "waiting" THEN "timedout" ELSE "idle"]
  /\ returned' = IF pc[c] = "waiting" THEN returned
                 ELSE Return("threw", <<>>, <<>>, 0)
  /\ UNCHANGED <<now, cache, sources, requestPromises, firstReturn, started,
                 sinceClear, aside>>

\* the setTimeout callback, reject(new Error('TIMEOUT')): it moves a call
\* that waits on the race into its catch, and does nothing to a call that
\* has returned
TimerFires(c) ==
  /\ timer[c] = "armed"
  /\ timer' = [timer EXCEPT ![c] = IF pc[c] = "waiting" THEN "fired" ELSE "none"]
  /\ pc' = [pc EXCEPT ![c] = IF pc[c] = "waiting" THEN "timedout" ELSE "idle"]
  /\ UNCHANGED <<now, cache, sources, requestPromises, returned, firstReturn, started, sinceClear, aside>>

\* clearCache() that also aborts the calls in flight
clearCacheCancelling ==
  /\ cache # EmptyCache
  /\ cache' = SimpleCacheClear(cache)
  /\ firstReturn' = NoReturn
  /\ sinceClear' = "cleared"
  /\ pc' = [c \in Calls |-> IF pc[c] \in {"waiting", "timedout"} THEN "idle" ELSE pc[c]]
  /\ sources' = [c \in Calls |-> IF pc[c] \in {"waiting", "timedout"} THEN <<>>
                                  ELSE sources[c]]
  /\ requestPromises' =
       [c \in Calls |-> IF pc[c] \in {"waiting", "timedout"} THEN <<>>
                        ELSE requestPromises[c]]
  /\ timer' = [c \in Calls |-> IF pc[c] \in {"waiting", "timedout"} THEN "none"
                                ELSE timer[c]]
  /\ UNCHANGED <<now, returned, started, aside>>

\* clearCache(): every entry goes, and with it the window of any return
clearCache ==
  /\ cache # EmptyCache
  /\ cache' = SimpleCacheClear(cache)
  /\ firstReturn' = NoReturn
  /\ sinceClear' = "cleared"
  /\ UNCHANGED <<now, pc, sources, requestPromises, timer, returned, started, aside>>

\* a minute passes; every request has settled long before (axios timeout 6 s)
Tick ==
  /\ now < MaxTime
  /\ \A c \in Calls : pc[c] \notin {"waiting", "timedout"}
  /\ now' = now + 1
  /\ UNCHANGED <<cache, pc, sources, requestPromises, timer, returned, firstReturn, started, sinceClear, aside>>

Next ==
  \/ \E c \in Calls, srcs \in IdSeqs : GetHotNews(c, srcs)
  \/ \E c \in Calls, i \in Positions, ver \in Versions : FetchFulfils(c, i, ver)
  \/ \E c \in Calls, i \in Positions : FetchRejects(c, i)
  \/ \E c \in Calls : TimerFires(c)
  \/ clearCache
  \/ Tick

Spec == Init /\ [][Next]_vars

\* ------------------------------------------ getHotNews, non-timeout errors
\* sources.map(sourceId => this.getFallbackSiteData(sourceId))
fallbackResults(srcs, t) == [i \in 1..Len(srcs) |-> getFallbackSiteData(srcs[i], t)]

\* the catch for an error that is not TIMEOUT, caching what it returns the
\* way the TIMEOUT branch does
FinishErrorCaching(c, srcs) ==
  /\ returned' = Return("fallback", srcs, fallbackResults(srcs, now), 0)
  /\ cache' = SimpleCacheSet(cache, CacheKey(srcs), fallbackResults(srcs, now),
                             TTL_PARTIAL, now)
  /\ UNCHANGED firstReturn
  /\ Leave(c, "armed")

\* the catch of getHotNews for an error that is not TIMEOUT: the fallback of
\* every id is returned; the cache is not written
FinishError(c, srcs) ==
  /\ returned' = Return("fallback", srcs, fallbackResults(srcs, now), 0)
  /\ UNCHANGED <<cache, firstReturn>>
  /\ Leave(c, "armed")

\* the last pending request of a waiting call settles, the race resolves, and
\* a statement of the try block throws before the cache is written (an error
\* of the runtime: nothing the block calls throws by itself)
InternalError(c, i) ==
  /\ pc[c] = "waiting"
  /\ i \in 1..Len(requestPromises[c])
  /\ requestPromises[c][i].status = "pending"
  /\ AllSettled([requestPromises[c] EXCEPT ![i] = Rejected(FALSE)])
  /\ FinishError(c, sources[c])
  /\ UNCHANGED <<now, started, sinceClear, aside>>

FaultNext ==
  \/ Next
  \/ \E c \in Calls, i \in Positions : InternalError(c, i)

FaultSpec == Init /\ [][FaultNext]_vars

\* ------------------------------------------------- SimpleCache on its own
\* the operations of the cache, called with keys, values and TTLs of the
\* kinds getHotNews passes
CacheKeys == {CacheKey(<<2>>), CacheKey(<<1, 1>>)}

CacheValues == {<<Real(2, 1)>>, <<getFallbackSiteData(2, 0)>>}

TtlMinutes == {TTL_PARTIAL, TTL_FULL}

CacheInit == Init

CacheSet(key, data, ttlMinutes) ==
  /\ cache' = SimpleCacheSet(cache, key, data, ttlMinutes, now)
  /\ UNCHANGED <<now, pc, sources, requestPromises, timer, returned, firstReturn,
                 started, sinceClear, got, proxy, clean, fetched, article, fallback>>

CacheGet(key) ==
  /\ LET r == SimpleCacheGet(cache, key, now)
     IN /\ cache' = r.cache
        /\ got' = [key |-> key, found |-> r.found, data |-> r.data, at |-> now]
  /\ UNCHANGED <<now, pc, sources, requestPromises, timer, returned, firstReturn,
                 started, sinceClear, proxy, clean, fetched, article, fallback>>

CacheClear ==
  /\ cache # EmptyCache
  /\ cache' = SimpleCacheClear(cache)
  /\ UNCHANGED <<now, pc, sources, requestPromises, timer, returned, firstReturn,
                 started, sinceClear, got, proxy, clean, fetched, article, fallback>>

CacheTick ==
  /\ now < MaxCacheTime
  /\ now' = now + 1
  /\ UNCHANGED <<cache, pc, sources, requestPromises, timer, returned, firstReturn,
                 started, sinceClear, got, proxy, clean, fetched, article, fallback>>

CacheNext ==
  \/ \E key \in CacheKeys, data \in CacheValues, ttl \in TtlMinutes :
       CacheSet(key, data, ttl)
  \/ \E key \in CacheKeys : CacheGet(key)
  \/ CacheClear
  \/ CacheTick

CacheSpec == CacheInit /\ [][CacheNext]_vars

\* -------------------------------------------------------- fetchArticleHtml
\* Markup is a sequence of elements [tag, attr]; attr carries the one
\* attribute the rewriter looks at (src of img, class of div) or the text of
\* a text node.
El(tag, attr) == [tag |-> tag, attr |-> attr]

\* elements a fetched page is made of
PageElems ==
  {El("script", ""), El("iframe", ""), El("img", "/a.png"),
   El("img", "https://cdn.ex.com/b.png"), El("img", "data:image/png;base64,AA=="),
   El("img", "http-banner.png"),
   El("div", "ad"), El("p", "")}

RECURSIVE SeqsUpTo(_, _)
SeqsUpTo(S, n) ==
  IF n = 0 THEN {<<>>}
  ELSE LET shorter == SeqsUpTo(S, n - 1)
       IN shorter \cup {Append(q, x) : q \in {t \in shorter : Len(t) = n - 1}, x \in S}

\* response.data: a string of markup, or no string at all (null)
StringBody(elems) == [isString |-> TRUE, elems |-> elems]

NullBody == [isString |-> FALSE, elems |-> <<>>]

Bodies == {StringBody(e) : e \in SeqsUpTo(PageElems, MaxElems)} \cup {NullBody}

\* a URL string: its text, and the markup that text is when read as HTML
Url(href, markup) == [href |-> href, markup |-> markup]

Urls ==
  {Url("https://ex.com/page", <<>>),
   Url("https://ex.com/?q=<script>alert(1)</script>", <<El("script", "")>>)}

\* axios.get: a response, or an error with its message
Ok(body) == [ok |-> TRUE, body |-> body, message |-> ""]

Failed(message) == [ok |-> FALSE, body |-> NullBody, message |-> message]

Responses ==
  {Ok(b) : b \in Bodies}
    \cup {Failed("Request failed with status code 403"),
          Failed("timeout of 15000ms exceeded")}

\* new URL(src, baseUrl).toString(); every URL of Urls has the origin
\* https://ex.com
ResolveUrl(src, base) ==
  CASE src = "/a.png" -> "https://ex.com/a.png"
    [] src = "http-banner.png" -> "https://ex.com/http-banner.png"
    [] OTHER -> src

StartsWith(str, prefix) ==
  \/ prefix = "http" /\ str \in {"https://cdn.ex.com/b.png", "https://ex.com/a.png",
                                   "http-banner.png", "https://ex.com/http-banner.png"}
  \/ prefix = "data:" /\ str \in {"data:image/png;base64,AA=="}

\* the elements $('head').append adds: the viewport meta and the style block
InjectedHead == <<El("meta", "viewport"), El("style", "")>>

\* processHtmlForWebview: scripts, frames and ads removed, relative image
\* sources resolved, head additions appended; when cheerio throws (no string
\* to load, or a failure inside the library) the catch returns html as it came
processHtmlForWebview(html, originalUrl, cheerioThrows) ==
  IF ~html.isString \/ cheerioThrows
  THEN html
  ELSE LET kept == SelectSeq(html.elems,
                     LAMBDA e : /\ e.tag \notin {"script", "iframe"}
                                /\ ~(e.tag = "div" /\ e.attr = "ad"))
           rewritten == [i \in 1..Len(kept) |->
                           IF /\ kept[i].tag = "img"
                              /\ kept[i].attr # ""
                              /\ ~StartsWith(kept[i].attr, "http")
                              /\ ~StartsWith(kept[i].attr, "data:")
                           THEN El("img", ResolveUrl(kept[i].attr, originalUrl))
                           ELSE kept[i]]
       IN StringBody(rewritten \o InjectedHead)

\* generateErrorHtml: the fixed page with url and errorMessage pasted in as
\* they are
generateErrorHtml(url, errorMessage) ==
  StringBody(<<El("title", "load-failed"), El("style", ""), El("#text", url.href)>>
               \o url.markup
               \o <<El("#text", errorMessage), El("button", "onclick")>>)

\* fetchArticleHtml: the page handed to the caller
fetchArticleHtml(url, response, cheerioThrows) ==
  IF ~response.ok THEN generateErrorHtml(url, response.message)
  ELSE LET html == processHtmlForWebview(response.body, url, cheerioThrows)
       IN IF ~html.isString
          \* html.length of the log line throws on null, and the catch answers
          THEN generateErrorHtml(url, "Cannot read properties of null")
          ELSE html

FetchArticleHtml(url, response, cheerioThrows) ==
  /\ proxy.pc = "idle"
  /\ proxy' = [pc |-> "done", url |-> url, response |-> response,
               cheerioThrows |-> cheerioThrows,
               out |-> fetchArticleHtml(url, response, cheerioThrows)]
  /\ UNCHANGED <<now, cache, pc, sources, requestPromises, timer, returned,
                 firstReturn, started, sinceClear, got, clean, fetched, article, fallback>>

\* the caller has taken the page
ProxyDone ==
  /\ proxy.pc = "done"
  /\ proxy' = NoProxy
  /\ UNCHANGED <<now, cache, pc, sources, requestPromises, timer, returned,
                 firstReturn, started, sinceClear, got, clean, fetched, article, fallback>>

ProxyNext ==
  \/ \E url \in Urls, response \in Responses, cheerioThrows \in BOOLEAN :
       FetchArticleHtml(url, response, cheerioThrows)
  \/ ProxyDone

ProxySpec == Init /\ [][ProxyNext]_vars

\* ----------------------------------------------------- cleanHtmlForRichText
\* An HTML string is a sequence of tokens: start tags with the names of their
\* double-quoted attributes, end tags, and runs of text of a given length.
\* Text runs are not blank, so the \s* of the patterns matches nothing.
Open(tag, attrs) == [t |-> "open", tag |-> tag, attrs |-> attrs, len |-> 0]

Close(tag) == [t |-> "close", tag |-> tag, attrs |-> {}, len |-> 0]

Text(len) == [t |-> "text", tag |-> "", attrs |-> {}, len |-> len]

\* the head of a tag that the length ceiling cut through
Partial(tag, len) == [t |-> "partial", tag |-> tag, attrs |-> {}, len |-> len]

MIN_TEXT_LENGTH == 10

MAX_HTML_LENGTH == 50000

unsupportedTags ==
  <<"script", "style", "iframe", "object", "embed", "form", "input", "button",
    "nav", "header", "footer", "aside", "canvas", "svg">>

\* the attribute the image pattern adds
ImgStyle == "style"

\* characters of one attribute as written: space, name, =, quoted value
AttrLen(a) == IF a = ImgStyle THEN 64 ELSE Len(a) + 5

RECURSIVE SumAttrLen(_)
SumAttrLen(attrs) ==
  IF attrs = {} THEN 0
  ELSE LET a == CHOOSE x \in attrs : TRUE IN AttrLen(a) + SumAttrLen(attrs \ {a})

\* characters of one token as written
TokLen(tok) ==
  CASE tok.t = "open" -> Len(tok.tag) + 2 + SumAttrLen(tok.attrs)
    [] tok.t = "close" -> Len(tok.tag) + 3
    [] OTHER -> tok.len

RECURSIVE HtmlLength(_)
HtmlLength(s) == IF s = <<>> THEN 0 ELSE TokLen(Head(s)) + HtmlLength(Tail(s))

SetMin(S) == CHOOSE x \in S : \A y \in S : x <= y

\* replace(/<tag[^>]*>.*?<\/tag>/gis, ''): from the leftmost start tag to the
\* nearest end tag after it, then on from there; a start tag with no end tag
\* after it matches nothing
RECURSIVE RemoveTagBlocks(_, _)
RemoveTagBlocks(tag, s) ==
  LET opens == {i \in 1..Len(s) : s[i].t = "open" /\ s[i].tag = tag}
  IN IF opens = {} THEN s
     ELSE LET i == SetMin(opens)
              closes == {j \in (i + 1)..Len(s) : s[j].t = "close" /\ s[j].tag = tag}
          IN IF closes = {} THEN s
             ELSE SubSeq(s, 1, i - 1)
                    \o RemoveTagBlocks(tag, SubSeq(s, SetMin(closes) + 1, Len(s)))

\* unsupportedTags.forEach, in the order of the list
RECURSIVE RemoveUnsupported(_, _)
RemoveUnsupported(tags, s) ==
  IF tags = <<>> THEN s
  ELSE RemoveUnsupported(Tail(tags), RemoveTagBlocks(Head(tags), s))

\* replace(/<(div|span)\s*[^>]*>\s*<\/(div|span)>/g, '')
RECURSIVE RemoveEmptyContainers(_)
RemoveEmptyContainers(s) ==
  IF Len(s) < 2 THEN s
  ELSE IF /\ s[1].t = "open" /\ s[1].tag \in {"div", "span"}
          /\ s[2].t = "close" /\ s[2].tag \in {"div", "span"}
       THEN RemoveEmptyContainers(Tail(Tail(s)))
       ELSE <<s[1]>> \o RemoveEmptyContainers(Tail(s))

\* replace(/<img([^>]*)>/g, '<img$1 style="...">')
StyleImages(s) ==
  [i \in 1..Len(s) |->
     IF s[i].t = "open" /\ s[i].tag = "img"
     THEN [s[i] EXCEPT !.attrs = @ \cup {ImgStyle}]
     ELSE s[i]]

\* replace(/\s(id|class|data-[^=]*|onclick|onload|onerror)="[^"]*"/g, '')
StripAttributes(s) ==
  [i \in 1..Len(s) |->
     [s[i] EXCEPT !.attrs = @ \ {"id", "class", "data-id", "onclick", "onload", "onerror"}]]

\* replace(/<(div|section|article)([^>]*)>/g, '<p$2>') and the same for the
\* end tags
ContainersToParagraphs(s) ==
  [i \in 1..Len(s) |->
     IF s[i].t \in {"open", "close"} /\ s[i].tag \in {"div", "section", "article"}
     THEN [s[i] EXCEPT !.tag = "p"]
     ELSE s[i]]

\* replace(/<p[^>]*>\s*<p[^>]*>/g, '<p>')
RECURSIVE CollapseNestedOpen(_)
CollapseNestedOpen(s) ==
  IF Len(s) < 2 THEN s
  ELSE IF /\ s[1].t = "open" /\ s[1].tag = "p"
          /\ s[2].t = "open" /\ s[2].tag = "p"
       THEN <<Open("p", {})>> \o CollapseNestedOpen(Tail(Tail(s)))
       ELSE <<s[1]>> \o CollapseNestedOpen(Tail(s))

\* replace(/<\/p>\s*<\/p>/g, '</p>')
RECURSIVE CollapseNestedClose(_)
CollapseNestedClose(s) ==
  IF Len(s) < 2 THEN s
  ELSE IF /\ s[1].t = "close" /\ s[1].tag = "p"
          /\ s[2].t = "close" /\ s[2].tag = "p"
       THEN <<Close("p")>> \o CollapseNestedClose(Tail(Tail(s)))
       ELSE <<s[1]>> \o CollapseNestedClose(Tail(s))

\* replace(/<p[^>]*>\s*<\/p>/g, '')
RECURSIVE RemoveEmptyParagraphs(_)
RemoveEmptyParagraphs(s) ==
  IF Len(s) < 2 THEN s
  ELSE IF /\ s[1].t = "open" /\ s[1].tag = "p"
          /\ s[2].t = "close" /\ s[2].tag = "p"
       THEN RemoveEmptyParagraphs(Tail(Tail(s)))
       ELSE <<s[1]>> \o RemoveEmptyParagraphs(Tail(s))

\* cleanHtml.replace(/<[^>]*>/g, '').trim().length
RECURSIVE TextContentLength(_)
TextContentLength(s) ==
  IF s = <<>> THEN 0
  ELSE (IF Head(s).t = "text" THEN Head(s).len ELSE 0) + TextContentLength(Tail(s))

\* substring(0, n)
RECURSIVE Substring(_, _)
Substring(s, n) ==
  IF s = <<>> \/ n = 0 THEN <<>>
  ELSE IF TokLen(Head(s)) <= n
       THEN <<Head(s)>> \o Substring(Tail(s), n - TokLen(Head(s)))
       ELSE IF Head(s).t = "text" THEN <<Text(n)>>
            ELSE <<Partial(Head(s).tag, n)>>

\* '<p>暂无内容</p>'
EmptyPlaceholder == <<Open("p", {}), Text(4), Close("p")>>

\* '<p>内容正在加载中，请稍后...</p>'
LoadingPlaceholder == <<Open("p", {}), Text(14), Close("p")>>

\* cleanHtmlForRichText after its test for an empty argument: the chain of
\* replacements, then the two tests on length
CleanNonEmpty(html) ==
  LET cleanHtml ==
        RemoveEmptyParagraphs(
          CollapseNestedClose(
            CollapseNestedOpen(
              ContainersToParagraphs(
                StripAttributes(
                  StyleImages(
                    RemoveEmptyContainers(
                      RemoveUnsupported(unsupportedTags, html))))))))
  IN IF TextContentLength(cleanHtml) < MIN_TEXT_LENGTH THEN LoadingPlaceholder
     ELSE IF HtmlLength(cleanHtml) > MAX_HTML_LENGTH
          THEN Substring(cleanHtml, MAX_HTML_LENGTH) \o <<Text(3), Close("p")>>
          ELSE cleanHtml

\* cleanHtmlForRichText without `if (!html) return ...`
cleanHtmlForRichTextUnguarded(html) == CleanNonEmpty(html)

cleanHtmlForRichText(html) ==
  IF html = <<>> THEN EmptyPlaceholder ELSE CleanNonEmpty(html)

\* the tokens an input is made of
CleanTokens ==
  {Open("script", {}), Close("script"), Open("input", {}),
   Open("div", {"class"}), Close("div"), Open("p", {}), Close("p"),
   Open("img", {"onerror"}), Text(4), Text(12), Text(MAX_HTML_LENGTH)}

CleanInputs == SeqsUpTo(CleanTokens, MaxTokens)

CleanHtmlForRichText(html) ==
  /\ clean.pc = "idle"
  /\ clean' = [pc |-> "done", html |-> html, out |-> cleanHtmlForRichText(html)]
  /\ UNCHANGED <<now, cache, pc, sources, requestPromises, timer, returned,
                 firstReturn, started, sinceClear, got, proxy, fetched, article, fallback>>

\* the caller has taken the string
CleanDone ==
  /\ clean.pc = "done"
  /\ clean' = NoClean
  /\ UNCHANGED <<now, cache, pc, sources, requestPromises, timer, returned,
                 firstReturn, started, sinceClear, got, proxy, fetched, article, fallback>>

CleanNext ==
  \/ \E html \in CleanInputs : CleanHtmlForRichText(html)
  \/ CleanDone

CleanSpec == Init /\ [][CleanNext]_vars

\* ------------------------------------------- fetchSingleSource, one exchange
\* What axios.get of a source comes back with: an error of axios (timeout,
\* status outside 2xx), or a response whose data is the parsed body.
AxiosError(message) ==
  [ok |-> FALSE, isObject |-> FALSE, success |-> FALSE, hasName |-> FALSE,
   hasData |-> FALSE, message |-> message]

\* response.data is a JSON object with these fields
News(success, hasName, hasData) ==
  [ok |-> TRUE, isObject |-> TRUE, success |-> success, hasName |-> hasName,
   hasData |-> hasData, message |-> ""]

\* response.data is no object: null, or the text of a page
NotAnObject ==
  [ok |-> TRUE, isObject |-> FALSE, success |-> FALSE, hasName |-> FALSE,
   hasData |-> FALSE, message |-> ""]

UpstreamResponses ==
  {AxiosError("timeout of 6000ms exceeded"),
   AxiosError("Request failed with status code 500"),
   NotAnObject,
   News(FALSE, FALSE, FALSE), News(FALSE, TRUE, TRUE)}
    \cup {News(TRUE, hasName, hasData) : hasName, hasData \in BOOLEAN}

\* {name: news.name, ..., data: news.data} with news.name or news.data
\* undefined
Malformed(id) == [kind |-> "malformed", id |-> id, ver |-> 0, time |-> 0]

\* fetchSingleSource from the answer of axios.get on: reading success off a
\* null body throws, a missing or false success throws, the catch rethrows;
\* else the four fields of news are returned as they are
fetchSingleSourceSettles(sourceId, response) ==
  IF sourceId \notin HOT_NEWS_SOURCES THEN Rejected(FALSE)
  ELSE IF ~response.ok \/ ~response.isObject \/ ~response.success THEN Rejected(FALSE)
  ELSE IF response.hasName /\ response.hasData
       THEN Fulfilled(Real(sourceId, 1), FALSE)
       ELSE Fulfilled(Malformed(sourceId), FALSE)

SourceSeqs == {<<1>>, <<2>>, <<1, 1>>, <<1, 2>>, <<2, 1>>, <<2, 2>>}

\* getHotNews on an empty cache, every request answered before the deadline
Aggregate(srcs, responses) ==
  /\ fetched.pc = "idle"
  /\ ~SimpleCacheGet(cache, CacheKey(srcs), now).found
  /\ LET promises == [i \in 1..Len(srcs) |->
                        fetchSingleSourceSettles(srcs[i], responses[i])]
         results == AssembleResults(promises, srcs, now)
     IN /\ cache' = SimpleCacheSet(cache, CacheKey(srcs), results, TTL_FULL, now)
        /\ fetched' = [pc |-> "done", sources |-> srcs, responses |-> responses,
                       list |-> results]
  /\ UNCHANGED <<now, pc, sources, requestPromises, timer, returned, firstReturn,
                 started, sinceClear, got, proxy, clean, article, fallback>>

SourceNext ==
  \E srcs \in SourceSeqs :
    \E responses \in [1..Len(srcs) -> UpstreamResponses] : Aggregate(srcs, responses)

SourceSpec == Init /\ [][SourceNext]_vars

\* ---------------------------- fetchArticleContent, generateFallbackContent
\* a URL string: its text, whether new URL(url) parses it, and its hostname
ArticleUrl(href, valid, hostname) == [href |-> href, valid |-> valid, hostname |-> hostname]

ArticleUrls ==
  {ArticleUrl("https://www.zhihu.com/question/1", TRUE, "www.zhihu.com"),
   ArticleUrl("https://36kr.com/p/1", TRUE, "36kr.com"),
   ArticleUrl("https://www.bilibili.com/video/BV1", TRUE, "www.bilibili.com"),
   ArticleUrl("https://b23.tv/BV1xx", TRUE, "b23.tv"),
   ArticleUrl("https://weibo.com/1", TRUE, "weibo.com"),
   ArticleUrl("https://ex.com/page", TRUE, "ex.com"),
   ArticleUrl("not a url", FALSE, ""),
   ArticleUrl("/question/403", FALSE, "")}

\* hostname.includes(part)
HostIncludes(hostname, part) ==
  <<hostname, part>> \in
    {<<"www.zhihu.com", "zhihu.com">>, <<"36kr.com", "36kr.com">>,
     <<"www.bilibili.com", "bilibili.com">>, <<"b23.tv", "b23.tv">>,
     <<"weibo.com", "weibo.com">>}

\* what a call hands back: a value, or an error thrown
Value(v) == [threw |-> FALSE, name |-> "", message |-> <<>>, value |-> v]

Thrown(name, message) == [threw |-> TRUE, name |-> name, message |-> message, value |-> <<>>]

getSiteName(hostname) ==
  CASE HostIncludes(hostname, "zhihu.com") -> "zhihu"
    [] HostIncludes(hostname, "36kr.com") -> "36kr"
    [] HostIncludes(hostname, "bilibili.com") \/ HostIncludes(hostname, "b23.tv") -> "bilibili"
    [] HostIncludes(hostname, "weibo.com") -> "weibo"
    [] OTHER -> "unknown site"

getPlatformDescription(hostname) ==
  CASE HostIncludes(hostname, "zhihu.com") -> "about zhihu"
    [] HostIncludes(hostname, "36kr.com") -> "about 36kr"
    [] HostIncludes(hostname, "bilibili.com") -> "about bilibili"
    [] OTHER -> "a popular site"

\* extractInfoFromUrl: title and summary by hostname; its catch answers a URL
\* that does not parse with the defaults
extractInfoFromUrl(url) ==
  IF ~url.valid
  THEN [title |-> "hot content", summary |-> "not available"]
  ELSE CASE HostIncludes(url.hostname, "zhihu.com") ->
              [title |-> "zhihu question", summary |-> "a zhihu question"]
         [] HostIncludes(url.hostname, "36kr.com") ->
              [title |-> "36kr news", summary |-> "36kr content"]
         [] HostIncludes(url.hostname, "bilibili.com") ->
              [title |-> "bilibili content", summary |-> "bilibili video or article"]
         [] HostIncludes(url.hostname, "b23.tv") ->
              [title |-> "bilibili video BV1xx", summary |-> "a bilibili video"]
         [] HostIncludes(url.hostname, "weibo.com") ->
              [title |-> "weibo content", summary |-> "weibo topic"]
         [] OTHER -> [title |-> "hot content", summary |-> "not available"]

\* a || b on strings
Or(a, b) == IF a # "" THEN a ELSE b

\* the block generateFallbackContent builds: what it names and links to
FallbackBlock(variant, siteName, summary, href, description) ==
  [kind |-> "fallback", variant |-> variant, siteName |-> siteName,
   summary |-> summary, href |-> href, description |-> description,
   html |-> <<>>]

\* generateFallbackContent: new URL(url) comes first and is not guarded
generateFallbackContent(url, title, summary) ==
  IF ~url.valid THEN Thrown("TypeError", <<"Invalid URL">>)
  ELSE IF HostIncludes(url.hostname, "b23.tv") \/ HostIncludes(url.hostname, "bilibili.com")
       THEN Value([title |-> Or(title, "bilibili video"),
                   content |-> FallbackBlock("video", getSiteName(url.hostname), summary,
                                             url.href, getPlatformDescription(url.hostname)),
                   summary |-> Or(summary, "open the link to watch")])
       ELSE Value([title |-> Or(title, "hot content"),
                   content |-> FallbackBlock("general", getSiteName(url.hostname),
                                             Or(summary, "a popular topic"), url.href,
                                             getPlatformDescription(url.hostname)),
                   summary |-> Or(summary, "open the link to read")])

Titles == {"", "hot content", "zhihu question", "Page title"}

Summaries == {"", "not available", "a zhihu question", "Page description"}

GenerateFallbackContent(url, title, summary) ==
  /\ fallback.pc = "idle"
  /\ fallback' = [pc |-> "done", url |-> url, title |-> title, summary |-> summary,
                  outcome |-> generateFallbackContent(url, title, summary)]
  /\ UNCHANGED <<now, cache, pc, sources, requestPromises, timer, returned,
                 firstReturn, started, sinceClear, got, proxy, clean, fetched, article>>

\* the caller has taken the outcome
FallbackDone ==
  /\ fallback.pc = "done"
  /\ fallback' = NoFallback
  /\ UNCHANGED <<now, cache, pc, sources, requestPromises, timer, returned,
                 firstReturn, started, sinceClear, got, proxy, clean, fetched, article>>

FallbackNext ==
  \/ \E url \in ArticleUrls, title \in Titles, summary \in Summaries :
       GenerateFallbackContent(url, title, summary)
  \/ FallbackDone

FallbackSpec == Init /\ [][FallbackNext]_vars

\* error messages are sequences of parts, so that message.includes(part) is
\* a test the model can make
Includes(message, part) == \E i \in 1..Len(message) : message[i] = part

\* what axios.get of the article page comes back with: an error with its
\* message, or the page
PageFailed(message) == [ok |-> FALSE, message |-> message, page |-> <<>>]

\* a fetched page, by what the selectors find in it: the text of <title>, the
\* HTML of the site's content selector, the HTML that the broader selectors
\* and body give, the meta description; data that is no string (null) has
\* none of them
Page(title, primary, body, description) ==
  [isString |-> TRUE, title |-> title, primary |-> primary, body |-> body,
   description |-> description]

NullPage ==
  [isString |-> FALSE, title |-> "", primary |-> <<>>, body |-> <<>>, description |-> ""]

PageOk(page) == [ok |-> TRUE, message |-> <<>>, page |-> page]

FetchErrors ==
  {<<"Request failed with status code ", "403">>,
   <<"Request failed with status code ", "500">>,
   <<"Forbidden">>,
   <<"request ", "blocked", " by the proxy">>,
   <<"timeout of 15000ms exceeded">>}

\* the error of axios.get for a url that does not parse
InvalidUrlError == <<"Invalid URL">>

PrimaryContents == {<<>>, <<Text(12)>>, <<Open("p", {}), Text(60), Close("p")>>}

BodyContents ==
  {<<>>, <<Text(4)>>, <<Open("div", {"class"}), Text(4), Close("div")>>,
   <<Open("p", {}), Text(60), Close("p")>>}

Pages ==
  {Page(title, primary, body, description) :
     title \in {"", "Page title"}, primary \in PrimaryContents,
     body \in BodyContents, description \in {"", "Page description"}}
    \cup {NullPage}

\* the responses a url can get: one that does not parse never leaves axios
ArticleResponses(url) ==
  IF url.valid
  THEN {PageFailed(m) : m \in FetchErrors} \cup {PageOk(p) : p \in Pages}
  ELSE {PageFailed(InvalidUrlError)}

\* content.trim().length < 50: the broader selectors are tried
SECONDARY_SELECTOR_LENGTH == 50

\* content.trim().length < 10: the fallback content is generated
MIN_CONTENT_LENGTH == 10

\* message.includes('403') only
AccessRestrictedByStatusOnly(message) == Includes(message, "403")

\* message.includes('403') || message.includes('Forbidden') ||
\* message.includes('blocked')
AccessRestricted(message) ==
  \/ Includes(message, "403")
  \/ Includes(message, "Forbidden")
  \/ Includes(message, "blocked")

\* the catch of fetchArticleContent answering every error with the fallback
fetchArticleContentCatchAll(url, message) ==
  LET urlInfo == extractInfoFromUrl(url)
  IN generateFallbackContent(url, urlInfo.title, urlInfo.summary)

\* the catch of fetchArticleContent
fetchArticleContentCatch(url, message) ==
  LET urlInfo == extractInfoFromUrl(url)
  IN IF AccessRestricted(message)
     THEN generateFallbackContent(url, urlInfo.title, urlInfo.summary)
     ELSE Thrown("Error", <<"Failed to fetch article content: ">> \o message)

\* the content taken from the page: the HTML of the site's selector, or,
\* when its length is below 50, that of the broader selectors and body
ExtractedContent(page) ==
  IF HtmlLength(page.primary) < SECONDARY_SELECTOR_LENGTH THEN page.body
  ELSE page.primary

\* fetchArticleContent
fetchArticleContent(url, response) ==
  LET urlInfo == extractInfoFromUrl(url)
  IN IF ~response.ok THEN fetchArticleContentCatch(url, response.message)
     ELSE IF ~response.page.isString
          THEN fetchArticleContentCatch(url, <<"cheerio.load() expects a string">>)
          ELSE LET page == response.page
                   title == Or(page.title, urlInfo.title)
                   content == ExtractedContent(page)
                   summary == Or(page.description, urlInfo.summary)
               IN IF HtmlLength(content) < MIN_CONTENT_LENGTH
                  THEN generateFallbackContent(url, Or(title, urlInfo.title),
                                               Or(summary, urlInfo.summary))
                  ELSE Value([title |-> Or(title, Or(urlInfo.title, "untitled")),
                              content |-> [kind |-> "html", variant |-> "",
                                           siteName |-> "", summary |-> "",
                                           href |-> "", description |-> "",
                                           html |-> cleanHtmlForRichText(content)],
                              summary |-> Or(summary, urlInfo.summary)])

FetchArticleContent(url, response) ==
  /\ article.pc = "idle"
  /\ article' = [pc |-> "done", url |-> url, response |-> response,
                 outcome |-> fetchArticleContent(url, response)]
  /\ UNCHANGED <<now, cache, pc, sources, requestPromises, timer, returned,
                 firstReturn, started, sinceClear, got, proxy, clean, fetched, fallback>>

\* the caller has taken the outcome
ArticleDone ==
  /\ article.pc = "done"
  /\ article' = NoArticle
  /\ UNCHANGED <<now, cache, pc, sources, requestPromises, timer, returned,
                 firstReturn, started, sinceClear, got, proxy, clean, fetched, fallback>>

ArticleNext ==
  \/ \E url \in ArticleUrls : \E response \in ArticleResponses(url) :
       FetchArticleContent(url, response)
  \/ ArticleDone

ArticleSpec == Init /\ [][ArticleNext]_vars

\* ------------------------------------------------------------ properties
RegisteredOnly(srcs) == \A i \in 1..Len(srcs) : srcs[i] \in HOT_NEWS_SOURCES

IsFetchedFrom(e, id) == e.kind = "real" /\ e.id = id /\ e.ver \in Versions

IsFallbackFor(e, id) == e.kind = "fallback" /\ e.id = id

\* call c resumes and returns in this step
Resumes(c) == pc[c] \in {"waiting", "timedout"} /\ pc'[c] \in {"idle", "returned"}

\* C1: for a non-empty sequence of registered ids, whatever the outcomes of
\* the requests, the list a call returns has one entry per position, and
\* entry i is the value of request i when that request fulfilled and else the
\* fallback of sourceIds[i]; a list served from the cache has one entry per
\* position too, each a fetched result or a fallback of the id at its position.
C1_OneEntryPerPosition ==
  [][/\ (returned'.via # "none" /\ RegisteredOnly(returned'.sources))
        => /\ Len(returned'.list) = Len(returned'.sources)
           /\ \A i \in 1..Len(returned'.sources) :
                \/ IsFetchedFrom(returned'.list[i], returned'.sources[i])
                \/ IsFallbackFor(returned'.list[i], returned'.sources[i])
     /\ \A c \in Calls :
          (Resumes(c) /\ RegisteredOnly(sources[c]))
          => /\ returned'.sources = sources[c]
             /\ Len(returned'.list) = Len(sources[c])
             /\ \A i \in 1..Len(sources[c]) :
                  LET p == requestPromises[c][i]
                      e == returned'.list[i]
                  IN CASE p.status = "fulfilled" -> e = p.value
                       [] p.status = "rejected" ->
                            e = getFallbackSiteData(sources[c][i], now)
                       [] OTHER ->
                            \/ IsFetchedFrom(e, sources[c][i])
                            \/ e = getFallbackSiteData(sources[c][i], now)
    ]_vars

\* a call for a repeated id has returned a fetched result at one position and
\* a fallback at the other
C1_Witness ==
  /\ returned.sources = <<1, 1>>
  /\ returned.via \in {"full", "partial"}
  /\ returned.list[1].kind = "fallback"
  /\ returned.list[2].kind = "real"

\* C2: when the deadline timer fires while no request of the call has
\* settled, the call returns in that very step, without waiting for a request,
\* and every entry it returns is a fallback.
C2_ReturnsAtDeadline ==
  [][\A c \in Calls :
       (/\ timer[c] = "armed" /\ timer'[c] # "armed"
        /\ pc[c] = "waiting"
        /\ \A i \in 1..Len(requestPromises[c]) :
             requestPromises[c][i].status = "pending")
       => /\ pc'[c] \in {"idle", "returned"}
          /\ returned'.sources = sources[c]
          /\ \A i \in 1..Len(sources[c]) :
               IsFallbackFor(returned'.list[i], sources[c][i])
    ]_vars

\* C3: a call whose deadline timer fired first returns a fallback for every
\* request that was still pending when the timer fired, also when that
\* request fulfilled afterwards.
C3_PendingAtDeadlineIsFallback ==
  [][\A c \in Calls :
       (pc[c] = "timedout" /\ Resumes(c))
       => \A i \in 1..Len(sources[c]) :
            (requestPromises[c][i].status = "pending" \/ requestPromises[c][i].late)
            => returned'.list[i].kind # "real"
    ]_vars

\* C4: once a call for an id sequence has returned, a call made for the same
\* sequence while the TTL window of that return is open returns an equal list
\* and starts no request.
C4_SameResultWithinTtl ==
  [][\A c \in Calls, srcs \in IdSeqs :
       (/\ GetHotNews(c, srcs)
        /\ firstReturn.via # "none"
        /\ firstReturn.sources = srcs
        /\ now < firstReturn.expires)
       => /\ returned'.via = "hit"
          /\ returned'.list = firstReturn.list
          /\ started' = started
    ]_vars

\* C5: the entry a call writes expires 5 minutes after the write when all
\* requests settled before the deadline timer fired and 2 minutes after the
\* write when the timer fired first; no entry is written with another TTL.
C5_TtlByPath ==
  [][/\ \A k \in DOMAIN cache' :
          (k \notin DOMAIN cache \/ cache'[k] # cache[k])
          => cache'[k].expires \in {now + 5, now + 2}
     /\ \A c \in Calls :
          Resumes(c)
          => /\ CacheKey(sources[c]) \in DOMAIN cache'
             /\ cache'[CacheKey(sources[c])].expires =
                  now + (IF pc[c] = "waiting" THEN 5 ELSE 2)
             /\ cache'[CacheKey(sources[c])].data = returned'.list
    ]_vars

\* a call that ran into its deadline has written its entry
C5_Witness ==
  /\ returned.via = "partial"
  /\ CacheKey(returned.sources) \in DOMAIN cache
  /\ cache[CacheKey(returned.sources)].expires = now + 2
  /\ cache[CacheKey(returned.sources)].data = returned.list

\* C6: no call rejects or throws: whatever the ids and the outcomes of the
\* requests, and whichever of allSettled and the timer wins the race, a call
\* that is over has returned a list, and a call that is not over waits for a
\* request that is still pending.
C6_NeverThrows ==
  /\ returned.via \in {"none", "hit", "full", "partial"}
  /\ returned.via # "none" => DOMAIN returned.list = 1..Len(returned.sources)
  /\ \A c \in Calls :
       pc[c] \in {"waiting", "timedout"}
       => \E i \in 1..Len(requestPromises[c]) :
            requestPromises[c][i].status = "pending"

\* a call with an unregistered id ran into its deadline and returned
C6_Witness ==
  /\ returned.via = "partial"
  /\ \E i \in 1..Len(returned.sources) : returned.sources[i] \notin HOT_NEWS_SOURCES

\* C7 (as stated): get(key) hands back the value stored by
\* set(key, value, ttl) at time t exactly when now < t + ttl, and reports the
\* entry absent at now = t + ttl and later.
C7_AbsentFromExpiry ==
  [][\A key \in CacheKeys :
       (CacheGet(key) /\ key \in DOMAIN cache)
       => /\ got'.found <=> now < cache[key].expires
          /\ got'.found => got'.data = cache[key].data
    ]_vars

\* C7 (amended): set(key, value, ttl) at time t stores the entry with expiry
\* t + ttl; get(key) hands back the stored value exactly when now <= t + ttl,
\* the expiry instant included, and reports the entry absent (and evicts it)
\* from t + ttl + 1 on.
C7_PresentThroughExpiry ==
  [][/\ \A key \in CacheKeys, data \in CacheValues, ttl \in TtlMinutes :
          CacheSet(key, data, ttl)
          => cache'[key] = [data |-> data, expires |-> now + ttl]
     /\ \A key \in CacheKeys :
          (CacheGet(key) /\ key \in DOMAIN cache)
          => /\ got'.found <=> now <= cache[key].expires
             /\ got'.found => got'.data = cache[key].data /\ cache' = cache
             /\ ~got'.found => key \notin DOMAIN cache'
    ]_vars

\* a get at the expiry instant of the entry has handed back its value
C7_Witness ==
  /\ got.found
  /\ got.at = now
  /\ got.key \in DOMAIN cache
  /\ cache[got.key].expires = now
  /\ cache[got.key].data = got.data

\* ---- fetchArticleHtml

HasScript(page) == \E i \in 1..Len(page.elems) : page.elems[i].tag = "script"

\* the synthesized error page for this url and this message
IsErrorPage(page, url, message) ==
  /\ page.isString
  /\ \E i \in 1..Len(page.elems) : page.elems[i] = El("title", "load-failed")
  /\ \E i \in 1..Len(page.elems) : page.elems[i] = El("#text", url.href)
  /\ \E i \in 1..Len(page.elems) : page.elems[i] = El("#text", message)

TransformFailed(px) == px.response.ok /\ (px.cheerioThrows \/ ~px.response.body.isString)

\* C8: the page fetchArticleHtml returns holds no script element, whatever
\* the URL and the fetched body, also when the fetch fails and when the
\* transform fails.
C8_NoScriptInPage ==
  proxy.pc = "done" => ~HasScript(proxy.out)

\* C9: fetchArticleHtml always returns a page, and when the fetch fails or
\* the transform fails, that page is the synthesized error page with the URL
\* and the failure message, never the fetched page.
C9_ErrorPageOnAnyFailure ==
  proxy.pc = "done"
  => /\ proxy.out.isString
     /\ (~proxy.response.ok \/ TransformFailed(proxy))
        => \E message \in {proxy.response.message, "cheerio.load() expects a string",
                            "Cannot read properties of null"} :
             IsErrorPage(proxy.out, proxy.url, message)

\* ---- cleanHtmlForRichText

IsUnsupportedTag(tok) ==
  /\ tok.t \in {"open", "close"}
  /\ \E k \in 1..Len(unsupportedTags) : unsupportedTags[k] = tok.tag

HasUnsupportedTag(s) == \E i \in 1..Len(s) : IsUnsupportedTag(s[i])

\* C10: for every input that holds a tag of an unsupported element, closed or
\* not, the string cleanHtmlForRichText returns holds no tag of an unsupported
\* element.
C10_NoUnsupportedTagInOutput ==
  (clean.pc = "done" /\ HasUnsupportedTag(clean.html)) => ~HasUnsupportedTag(clean.out)

\* ---- validation of source ids

\* C12: a request that names an id the registry does not have is turned down
\* before anything is started: no request promise is created for any
\* position, no list is returned and nothing is cached for it.
C12_UnknownIdRejected ==
  [][\A c \in Calls, srcs \in IdSeqs :
       (GetHotNews(c, srcs) /\ ~RegisteredOnly(srcs))
       => /\ started' = started
          /\ requestPromises' = requestPromises
          /\ pc' = pc
          /\ returned' = returned
          /\ cache' = cache
    ]_vars

\* ---- overlapping calls

\* C18: a call that resumes after the race looks at the cache again before it
\* writes: when the entry of its key is there and has not expired (another
\* call wrote it during the wait), the resuming call leaves that entry as it
\* is.
C18_RecheckBeforeWrite ==
  [][\A c \in Calls :
       (/\ Resumes(c)
        /\ CacheKey(sources[c]) \in DOMAIN cache
        /\ ~SimpleCacheMisses(cache, CacheKey(sources[c]), now))
       => cache'[CacheKey(sources[c])] = cache[CacheKey(sources[c])]
    ]_vars

\* ---- fan-out

InFlight(c) == pc[c] \in {"waiting", "timedout"}

\* C19: a call that misses the cache has, when it first suspends, one request
\* per position of its id sequence, a repeated id one per occurrence, and the
\* request of every registered id is under way; while the call is in flight
\* the number of its requests does not change and a request that has settled,
\* failed or not, stays as it settled: it is not issued again.
C19_OneRequestPerPosition ==
  [][/\ \A c \in Calls, srcs \in IdSeqs :
          (GetHotNews(c, srcs) /\ InFlight(c)')
          => /\ started' = started + 1
             /\ sources'[c] = srcs
             /\ Len(requestPromises'[c]) = Len(srcs)
             /\ \A i \in 1..Len(srcs) :
                  srcs[i] \in HOT_NEWS_SOURCES
                  => requestPromises'[c][i].status = "pending"
     /\ \A c \in Calls :
          (InFlight(c) /\ InFlight(c)')
          => /\ Len(requestPromises'[c]) = Len(requestPromises[c])
             /\ \A i \in 1..Len(requestPromises[c]) :
                  requestPromises[c][i].status # "pending"
                  => requestPromises'[c][i] = requestPromises[c][i]
    ]_vars

\* a call for a repeated id is in flight: the request of the first occurrence
\* has failed and the request of the second is still under way
C19_Witness ==
  \E c \in Calls :
    /\ InFlight(c)
    /\ sources[c] = <<1, 1>>
    /\ requestPromises[c][1].status = "rejected"
    /\ requestPromises[c][2].status = "pending"

\* ---- upstream errors

\* the request did not get a well-formed success: axios failed (timeout,
\* status), the body is no object, success is not set, or name or data is
\* missing
IsUpstreamError(response) ==
  \/ ~response.ok
  \/ ~response.isObject
  \/ ~response.success
  \/ ~(response.hasName /\ response.hasData)

\* C13: in the list of an aggregation, the entry of every position whose
\* request timed out, got a non-success status or answer, or got an answer of
\* malformed shape is the fallback of the id at that position.
C13_UpstreamErrorsBecomeFallback ==
  fetched.pc = "done"
  => \A i \in 1..Len(fetched.sources) :
       IsUpstreamError(fetched.responses[i])
       => IsFallbackFor(fetched.list[i], fetched.sources[i])

\* ---- image sources of the proxied page

Imgs(elems) == SelectSeq(elems, LAMBDA e : e.tag = "img")

\* the src is an absolute URL (it has a scheme) or a data URI
IsAbsoluteOrData(src) ==
  src \in {"https://cdn.ex.com/b.png", "data:image/png;base64,AA=="}

\* C14: when the page was fetched and rewritten, its images are the images of
\* the fetched page in their order, where every src that is relative has
\* become its resolution against the page URL and every src that is an
\* absolute URL or a data URI is as it was.
C14_RelativeSrcResolved ==
  (/\ proxy.pc = "done"
   /\ proxy.response.ok
   /\ proxy.response.body.isString
   /\ ~proxy.cheerioThrows)
  => LET before == Imgs(proxy.response.body.elems)
         after == Imgs(proxy.out.elems)
     IN /\ Len(after) = Len(before)
        /\ \A i \in 1..Len(before) :
             after[i].attr =
               IF IsAbsoluteOrData(before[i].attr) THEN before[i].attr
               ELSE ResolveUrl(before[i].attr, proxy.url)

\* ---- placeholders of cleanHtmlForRichText

\* C15: cleanHtmlForRichText of the empty string is the "no content"
\* placeholder, and whatever the input, the string it returns is not empty.
C15_NeverEmpty ==
  clean.pc = "done"
  => /\ clean.html = <<>> => clean.out = EmptyPlaceholder
     /\ clean.out # <<>>
     /\ HtmlLength(clean.out) > 0

\* the empty string was cleaned
C15_Witness ==
  /\ clean.pc = "done"
  /\ clean.html = <<>>
  /\ clean.out = EmptyPlaceholder

\* ---- fallback content

\* C16: generateFallbackContent hands back an article for every url, title
\* and summary, a url that does not parse included: it throws nothing.
C16_FallbackAlwaysSucceeds ==
  fallback.pc = "done"
  => /\ ~fallback.outcome.threw
     /\ fallback.outcome.value.content.kind = "fallback"

\* ---- fetchArticleContent, failures

\* the message carries a sign of an access restriction
HasRestrictionSignal(message) ==
  \E part \in {"403", "Forbidden", "blocked"} : Includes(message, part)

\* the message of the failure of the call, if the fetch or the parse failed
FailureOf(a) ==
  IF ~a.response.ok THEN a.response.message
  ELSE <<"cheerio.load() expects a string">>

FetchOrParseFailed(a) == ~a.response.ok \/ ~a.response.page.isString

\* C11: when the fetch of the page fails with a message that carries a sign
\* of an access restriction (403, Forbidden, blocked), fetchArticleContent
\* throws nothing: it hands back an article whose content links to the url
\* it was called with.
C11_RestrictedFetchDegrades ==
  (/\ article.pc = "done"
   /\ ~article.response.ok
   /\ HasRestrictionSignal(article.response.message))
  => /\ ~article.outcome.threw
     /\ article.outcome.value.content.kind = "fallback"
     /\ article.outcome.value.content.href = article.url.href

\* a fetch answered "Forbidden" has been turned into fallback content
C11_Witness ==
  /\ article.pc = "done"
  /\ ~article.response.ok
  /\ article.response.message = <<"Forbidden">>
  /\ ~article.outcome.threw
  /\ article.outcome.value.content.href = article.url.href

\* C17: when the fetch or the parse of the page fails with a message that
\* carries no sign of an access restriction, fetchArticleContent throws an
\* error whose message is "Failed to fetch article content: " followed by
\* the message of the failure, and hands back no article.
C17_OtherFailuresPropagate ==
  (/\ article.pc = "done"
   /\ FetchOrParseFailed(article)
   /\ ~HasRestrictionSignal(FailureOf(article)))
  => /\ article.outcome.threw
     /\ article.outcome.message =
          <<"Failed to fetch article content: ">> \o FailureOf(article)
     /\ article.outcome.value = <<>>

\* a page that was no string has made the call throw
C17_Witness ==
  /\ article.pc = "done"
  /\ article.response.ok
  /\ ~article.response.page.isString
  /\ article.outcome.threw
  /\ Includes(article.outcome.message, "cheerio.load() expects a string")

\* ---- errors inside the orchestration

\* C20: when an error that is not the deadline signal is thrown inside the
\* try block of a call, the call returns a list, one entry per requested id,
\* and every entry is the fallback result of the id at its position; nothing
\* is thrown to the caller.
C20_InternalErrorGivesFallbacks ==
  [][\A c \in Calls, i \in Positions :
       InternalError(c, i)
       => /\ returned'.via # "threw"
          /\ returned'.sources = sources[c]
          /\ Len(returned'.list) = Len(sources[c])
          /\ \A k \in 1..Len(sources[c]) :
               IsFallbackFor(returned'.list[k], sources[c][k])
    ]_vars


\* C21: across the operations of the cache, set(key, v, ttl) replaces the
\* entry of key alone, with expiry now + ttl, and leaves the entry of every
\* other key as it was; an entry disappears only through clear() or through a
\* get on its own key that finds it expired; and no get changes an entry that
\* is unexpired.
C21_CacheFrame ==
  [][/\ \A key \in CacheKeys, data \in CacheValues, ttl \in TtlMinutes :
          CacheSet(key, data, ttl)
          => /\ cache'[key] = [data |-> data, expires |-> now + ttl]
             /\ DOMAIN cache' = DOMAIN cache \cup {key}
             /\ \A k \in DOMAIN cache \ {key} : cache'[k] = cache[k]
     /\ \A k \in DOMAIN cache :
          k \notin DOMAIN cache'
          => \/ CacheClear
             \/ CacheGet(k) /\ now > cache[k].expires
     /\ \A key \in CacheKeys :
          CacheGet(key)
          => /\ DOMAIN cache' \subseteq DOMAIN cache
             /\ \A k \in DOMAIN cache :
                  now <= cache[k].expires
                  => k \in DOMAIN cache' /\ cache'[k] = cache[k]
             /\ \A k \in DOMAIN cache' : cache'[k] = cache[k]
    ]_vars

\* a get has just evicted the expired entry of its key while the expired
\* entry of the other key stays in the map
C21_Witness ==
  /\ got.at = now
  /\ ~got.found
  /\ got.key \in CacheKeys
  /\ got.key \notin DOMAIN cache
  /\ \E k \in DOMAIN cache : k # got.key /\ now > cache[k].expires


\* ---- short content

\* C22: whenever the content taken from the page has fewer than 10
\* characters of text once its markup is stripped, fetchArticleContent hands
\* back the generated fallback content, never near-empty markup and never
\* the "content is loading" placeholder of the cleaner.
C22_ShortTextIsFallback ==
  (/\ article.pc = "done"
   /\ article.response.ok
   /\ article.response.page.isString
   /\ TextContentLength(ExtractedContent(article.response.page)) < MIN_CONTENT_LENGTH)
  => /\ ~article.outcome.threw
     /\ article.outcome.value.content.kind = "fallback"
     /\ article.outcome.value.content.html # LoadingPlaceholder


\* ---- length ceiling

\* C23: the string cleanHtmlForRichText hands back is never longer than
\* 50,000 characters, whatever the length of its input.
C23_OutputWithinCeiling ==
  clean.pc = "done" => HtmlLength(clean.out) <= MAX_HTML_LENGTH


\* ---- cache key

\* ids whose decimal strings are prefixes and concatenations of one another
KeyIds == {1, 2, 11, 12}

KeySeqs == SeqsUpTo(KeyIds, MaxKeyLen)

CacheKeyInjective ==
  \A s \in KeySeqs, t \in KeySeqs : CacheKey(s) = CacheKey(t) => s = t

\* C24: the cache key is an injective function of the id sequence (two
\* sequences have the same key only when they are equal element by element),
\* and a list served from the cache has the length of the request and, at
\* every position, an entry made for the id requested at that position.
C24_KeyIdentifiesSequence ==
  /\ CacheKeyInjective
  /\ \A s \in IdSeqs, t \in IdSeqs : CacheKey(s) = CacheKey(t) => s = t
  /\ returned.via = "hit"
     => /\ Len(returned.list) = Len(returned.sources)
        /\ \A i \in 1..Len(returned.sources) :
             IF returned.sources[i] \in HOT_NEWS_SOURCES
             THEN returned.list[i].id = returned.sources[i]
             ELSE returned.list[i] = NullResult

\* a call for [1, 1] was served from the cache while the cache also holds
\* the entry of [1, 10]
C24_Witness ==
  /\ returned.via = "hit"
  /\ returned.sources = <<1, 1>>
  /\ Len(returned.list) = 2
  /\ CacheKey(<<1, 10>>) \in DOMAIN cache


\* ---- the non-timeout branch and the cache

AllFailed(list) == \A i \in 1..Len(list) : list[i].kind # "real"

\* C26: when every request of a call has settled before the deadline and
\* every one has failed, the list of fallbacks is written to the cache with
\* the TTL of 5 minutes, and every call for the same id sequence made while
\* that window is open returns that list and launches no request.
C26_AllFailedIsCachedAndServed ==
  [][/\ \A c \in Calls :
          (Resumes(c) /\ pc[c] = "waiting" /\ returned'.via = "full"
           /\ AllFailed(returned'.list))
          => /\ CacheKey(sources[c]) \in DOMAIN cache'
             /\ cache'[CacheKey(sources[c])] =
                  [data |-> returned'.list, expires |-> now + TTL_FULL]
     /\ \A c \in Calls, srcs \in IdSeqs :
          (/\ GetHotNews(c, srcs)
           /\ firstReturn.via = "full"
           /\ firstReturn.sources = srcs
           /\ AllFailed(firstReturn.list)
           /\ now < firstReturn.expires)
          => /\ returned'.via = "hit"
             /\ returned'.list = firstReturn.list
             /\ started' = started
    ]_vars


\* ---- overlapping calls

\* C27: when a call misses the cache while another call for the same id
\* sequence is in flight, it launches requests of its own, one per position,
\* and leaves the requests of the other call alone; each of the two returns
\* a list of the requested length; and every call writes its list to the
\* cache when it returns, so the entry left is that of the call that
\* returned last.
C27_OverlappingCallsAreIndependent ==
  [][/\ \A c \in Calls, d \in Calls, srcs \in IdSeqs :
          (/\ GetHotNews(c, srcs)
           /\ d # c /\ InFlight(d) /\ sources[d] = srcs
           /\ ~SimpleCacheGet(cache, CacheKey(srcs), now).found)
          => /\ started' = started + 1
             /\ requestPromises'[d] = requestPromises[d]
             /\ InFlight(d)'
             /\ InFlight(c)'
                  => /\ Len(requestPromises'[c]) = Len(srcs)
                     /\ \A i \in 1..Len(srcs) :
                          requestPromises'[c][i] = fetchSingleSource(srcs[i])
             /\ ~InFlight(c)'
                  => /\ returned'.sources = srcs
                     /\ Len(returned'.list) = Len(srcs)
     /\ \A c \in Calls :
          Resumes(c)
          => /\ returned'.sources = sources[c]
             /\ returned'.via \in {"full", "partial"}
             /\ Len(returned'.list) = Len(sources[c])
             /\ CacheKey(sources[c]) \in DOMAIN cache'
             /\ cache'[CacheKey(sources[c])].data = returned'.list
             /\ \A d \in Calls \ {c} :
                  /\ requestPromises'[d] = requestPromises[d]
                  /\ pc'[d] = pc[d]
    ]_vars

\* two overlapping calls for [1, 1] have both returned, with different
\* lists, and the cache holds the list of the one that returned last
C27_Witness ==
  /\ firstReturn.via \in {"full", "partial"}
  /\ returned.via \in {"full", "partial"}
  /\ firstReturn.sources = <<1, 1>>
  /\ returned.sources = <<1, 1>>
  /\ now < firstReturn.expires
  /\ firstReturn.list # returned.list
  /\ Len(firstReturn.list) = 2
  /\ Len(returned.list) = 2
  /\ cache[CacheKey(<<1, 1>>)].data = returned.list


\* ---- clearCache and calls in flight

\* C28: clearCache() empties the cache and cancels nothing: the calls in
\* flight, their requests and their timers are as they were, and a call that
\* was in flight at the clear writes its list to the cache when it returns,
\* also when no call has begun since the clear.
C28_ClearCancelsNothing ==
  [][/\ clearCache
          => /\ cache' = EmptyCache
             /\ pc' = pc
             /\ sources' = sources
             /\ requestPromises' = requestPromises
             /\ timer' = timer
     /\ \A c \in Calls :
          (Resumes(c) /\ sinceClear = "cleared")
          => /\ sinceClear' = "cleared"
             /\ CacheKey(sources[c]) \in DOMAIN cache'
             /\ cache'[CacheKey(sources[c])].data = returned'.list
    ]_vars

\* the cache was cleared, no call has begun since, and the cache holds the
\* list of a call that has returned after the clear
C28_Witness ==
  /\ sinceClear = "cleared"
  /\ returned.via \in {"full", "partial"}
  /\ CacheKey(returned.sources) \in DOMAIN cache
  /\ cache[CacheKey(returned.sources)].data = returned.list


\* ---- entries of the returned list

\* C29: every entry of a list a call returns is a SourceResult object, never
\* null, whatever numeric ids the call was given, ids that are not in the
\* registry included.
C29_NoNullEntry ==
  returned.via # "none"
  => \A i \in 1..Len(returned.list) : returned.list[i] # NullResult


\* ---- the timer of a call that has returned

\* C30: a call whose requests all settle before the deadline returns with
\* its timer still armed; when that timer fires afterwards, the cache and the
\* result handed to the caller are as they were, nothing is thrown, and the
\* other call, in flight or not, is left as it was.
C30_LateTimerIsHarmless ==
  [][/\ \A c \in Calls :
          (Resumes(c) /\ pc[c] = "waiting")
          => timer'[c] = "armed" /\ pc'[c] = "returned"
     /\ \A c \in Calls :
          (TimerFires(c) /\ pc[c] = "returned")
          => /\ cache' = cache
             /\ returned' = returned
             /\ returned'.via # "threw"
             /\ firstReturn' = firstReturn
             /\ timer'[c] = "none"
             /\ \A d \in Calls \ {c} :
                  /\ pc'[d] = pc[d]
                  /\ sources'[d] = sources[d]
                  /\ requestPromises'[d] = requestPromises[d]
                  /\ timer'[d] = timer[d]
    ]_vars

\* the only call that missed the cache returned with all its requests
\* settled, and its timer has fired since: the cache still holds its list
C30_Witness ==
  /\ started = 1
  /\ returned.via = "full"
  /\ \A c \in Calls : pc[c] = "idle" /\ timer[c] = "none"
  /\ CacheKey(returned.sources) \in DOMAIN cache
  /\ cache[CacheKey(returned.sources)].data = returned.list

====
